---------------------------- MODULE Spec2Model ----------------------------
(***************************************************************************)
(* One-pole filter plugin (AquaEBM/one_pole, src/src/lib.rs).              *)
(*                                                                         *)
(* The plugin's block callback `process`, its `reset` and `initialize`     *)
(* are translated from lib.rs.  The filter engine it drives (OnePole, its  *)
(* smoothers and its integrator) lives in the plugin_util crate; it is     *)
(* modelled from the design specification (sections 4.1 - 4.5).            *)
(*                                                                         *)
(* Numbers.  Smoothed parameters are exact rationals <<num, den>>.  Audio  *)
(* samples are fixed-point integers; a product with a rational is rounded  *)
(* down, the counterpart of f32 rounding.                                  *)
(***************************************************************************)
EXTENDS Integers, Sequences, FiniteSets, TLC

(***************************************************************************)
(* Bounds of the model.                                                    *)
(***************************************************************************)
MaxFrames == 3       \* audio frames handed to process in a run, over all its blocks
MaxAutomations == 1  \* host parameter updates in a run
MaxSteps == 3        \* longest ramp (smoother specification)
MaxSets == 2         \* set_target calls on a smoother (smoother specification)
MaxExtraTicks == 2   \* advances past the end of a ramp (smoother specification)

(***************************************************************************)
(* Program constants.                                                      *)
(***************************************************************************)
MIN_FREQ == 13
MAX_FREQ == 21000
CHANNELS == 2

----------------------------------------------------------------------------
(***************************************************************************)
(* Rational arithmetic.                                                    *)
(***************************************************************************)
Abs(n) == IF n < 0 THEN -n ELSE n

RECURSIVE GCD(_, _)
GCD(a, b) == IF b = 0 THEN a ELSE GCD(b, a % b)

Norm(n, d) ==
    LET g == GCD(Abs(n), d)
    IN  <<n \div g, d \div g>>

RInt(n) == <<n, 1>>
RAdd(a, b) == Norm(a[1] * b[2] + b[1] * a[2], a[2] * b[2])
RSub(a, b) == Norm(a[1] * b[2] - b[1] * a[2], a[2] * b[2])
RDivInt(a, n) == Norm(a[1], a[2] * n)
RLt(a, b) == a[1] * b[2] < b[1] * a[2]
RFloor(a) == a[1] \div a[2]

\* r * v for a fixed-point sample v, rounded down
FixMul(r, v) == (r[1] * v) \div r[2]

RECURSIVE Pow2(_)
Pow2(n) == IF n = 0 THEN 1 ELSE 2 * Pow2(n - 1)

\* integer square root, by Newton's iteration from above
RECURSIVE ISqrtFrom(_, _)
ISqrtFrom(n, r) ==
    LET next == (r + n \div r) \div 2
    IN  IF next >= r THEN r ELSE ISqrtFrom(n, next)

ISqrt(n) == IF n = 0 THEN 0 ELSE ISqrtFrom(n, n)

\* 2^e for a rational exponent e: exact at the integers, linear in between
Exp2(e) ==
    LET fl == RFloor(e)
        frac == RSub(e, RInt(fl))
        mant == RAdd(RInt(1), frac)
    IN  IF fl >= 0 THEN Norm(mant[1] * Pow2(fl), mant[2])
        ELSE Norm(mant[1], mant[2] * Pow2(-fl))

----------------------------------------------------------------------------
(***************************************************************************)
(* Parameters (lib.rs, OnePoleParams).                                     *)
(***************************************************************************)
FilterMode == {"HP", "LP", "AP", "LSH", "HSH"}

\* cutoff parameter, in halves of its [0, 1] range
CutoffVals == {1, 2}
\* gain parameter, in dB, inside its [-18, 18] range
GainVals == {0, 18}

DefaultParams == [cutoff |-> 1, gain |-> 0, mode |-> "AP"]

ParamValues == [cutoff : CutoffVals, gain : GainVals, mode : FilterMode]

\* MIN_FREQ * (MAX_FREQ / MIN_FREQ).powf(value), for value = c / 2, in Hz
CutoffHz(c) ==
    IF c = 0 THEN MIN_FREQ
    ELSE IF c = 1 THEN ISqrt(MIN_FREQ * MAX_FREQ)
    ELSE MAX_FREQ

\* 10f32.powf(db * (1. / 20.)), kept as its base-2 exponent: 10^(db/20) is
\* 2^(db/6.02), and the model takes 6 dB to the octave
GainExp(db) == Norm(db, 6)

----------------------------------------------------------------------------
(***************************************************************************)
(* Smoothers (design section 4.1).  A smoother holds the current value,    *)
(* the target, the per-advance step and the number of advances left.  The  *)
(* logarithmic smoother is kept in the log2 domain: its multiplicative     *)
(* step (target / current)^(1/n) is the addition of (log target - log      *)
(* current) / n, and the order of the values is the order of their logs.   *)
(***************************************************************************)
NewSmoother(v) == [current |-> v, target |-> v, step |-> RInt(0), steps |-> 0]

lin_set_target(sm, v, n) ==
    [current |-> sm.current,
     target  |-> v,
     step    |-> RDivInt(RSub(v, sm.current), n),
     steps   |-> n]

\* variant: an advance that does not stop at the end of the ramp
lin_tick_overshoot(sm) ==
    [sm EXCEPT !.current = RAdd(@, sm.step),
               !.steps = IF @ > 0 THEN @ - 1 ELSE 0]

lin_tick(sm) ==
    IF sm.steps > 0
    THEN [sm EXCEPT !.current = RAdd(@, sm.step), !.steps = @ - 1]
    ELSE sm

log_set_target(sm, e, n) ==
    [current |-> sm.current,
     target  |-> e,
     step    |-> RDivInt(RSub(e, sm.current), n),
     steps   |-> n]

\* variant: a ramp that jumps to its target one advance early
log_tick_early(sm) ==
    IF sm.steps > 0
    THEN [sm EXCEPT !.current = IF sm.steps <= 2 THEN sm.target ELSE RAdd(@, sm.step),
                    !.steps = @ - 1]
    ELSE sm

log_tick(sm) ==
    IF sm.steps > 0
    THEN [sm EXCEPT !.current = RAdd(@, sm.step), !.steps = @ - 1]
    ELSE sm

----------------------------------------------------------------------------
(***************************************************************************)
(* OnePole<2> (design sections 4.2 - 4.5).                                 *)
(*   coeff  the coefficient smoother (linear)                              *)
(*   gain   the gain smoother (logarithmic)                                *)
(*   s      the integrator state, one entry per channel                    *)
(*   x      the input of the latest process call, one entry per channel    *)
(*   sample_rate  0 until set_sample_rate                                  *)
(***************************************************************************)
Lanes == 1..CHANNELS

Zero == [i \in Lanes |-> 0]

\* the gain smoother starts at gain 1, whose log2 is 0
DefaultOnePole ==
    [coeff |-> NewSmoother(RInt(0)),
     gain  |-> NewSmoother(RInt(0)),
     s     |-> Zero,
     x     |-> Zero,
     sample_rate |-> 0]

set_sample_rate(fl, sr) == [fl EXCEPT !.sample_rate = sr]

\* tan(t) / (1 + tan(t)) = sin(t) / (sin(t) + cos(t)), t = cutoff * pi / sample_rate,
\* with Bhaskara's rational sine; exact at t = 0 and t = pi / 4.
\*   R  cutoff / sample_rate is kept in steps of 1 / R
\*   T  resolution of the sine and cosine values
\*   D  resolution of the coefficient
pre_gain(fl, hz) ==
    LET R  == 64
        T  == 1024
        D  == 64
        q  == (2 * hz * R + fl.sample_rate) \div (2 * fl.sample_rate)
        sn == ((16 * q * (R - q)) * T) \div (5 * R * R - 4 * q * (R - q))
        cs == ((R * R - 4 * q * q) * T) \div (R * R + q * q)
    IN  Norm((2 * sn * D + (sn + cs)) \div (2 * (sn + cs)), D)

set_cutoff_smoothed(fl, hz, n) ==
    [fl EXCEPT !.coeff = lin_set_target(@, pre_gain(fl, hz), n)]

set_params_low_shelving_smoothed(fl, hz, g, n) ==
    [fl EXCEPT !.coeff = lin_set_target(@, pre_gain(fl, hz), n),
               !.gain  = log_set_target(@, g, n)]

set_params_high_shelving_smoothed(fl, hz, g, n) ==
    [fl EXCEPT !.coeff = lin_set_target(@, pre_gain(fl, hz), n),
               !.gain  = log_set_target(@, g, n)]

update_smoothers(fl) ==
    [fl EXCEPT !.coeff = lin_tick(@), !.gain = log_tick(@)]

\* Integrator: state += g * delta
integrator_process(st, delta, g) == st + FixMul(g, delta)

filter_process(fl, smp) ==
    [fl EXCEPT !.x = smp,
               !.s = [i \in Lanes |->
                        integrator_process(fl.s[i], smp[i] - fl.s[i], fl.coeff.current)]]

filter_reset(fl) == [fl EXCEPT !.s = Zero]

get_lowpass(fl) == fl.s
get_highpass(fl) == [i \in Lanes |-> fl.x[i] - get_lowpass(fl)[i]]
get_allpass(fl) == [i \in Lanes |-> get_lowpass(fl)[i] - get_highpass(fl)[i]]
get_lowshelf(fl) ==
    [i \in Lanes |-> FixMul(Exp2(fl.gain.current), get_lowpass(fl)[i]) + get_highpass(fl)[i]]
get_highshelf(fl) ==
    [i \in Lanes |-> get_lowpass(fl)[i] + FixMul(Exp2(fl.gain.current), get_highpass(fl)[i])]

\* a call through the function pointer that output_function returned
Call(fn, fl) ==
    CASE fn = "get_highpass"  -> get_highpass(fl)
      [] fn = "get_lowpass"   -> get_lowpass(fl)
      [] fn = "get_allpass"   -> get_allpass(fl)
      [] fn = "get_lowshelf"  -> get_lowshelf(fl)
      [] fn = "get_highshelf" -> get_highshelf(fl)

----------------------------------------------------------------------------
(***************************************************************************)
(* The plugin (lib.rs).                                                    *)
(***************************************************************************)
\* variant: the Allpass arm returns the lowpass derivation
output_function_swapped(m) ==
    CASE m = "HP"  -> "get_highpass"
      [] m = "LP"  -> "get_lowpass"
      [] m = "AP"  -> "get_lowpass"
      [] m = "LSH" -> "get_lowshelf"
      [] m = "HSH" -> "get_highshelf"

\* FilterMode::output_function: the derivation function of a mode
output_function(m) ==
    CASE m = "HP"  -> "get_highpass"
      [] m = "LP"  -> "get_lowpass"
      [] m = "AP"  -> "get_allpass"
      [] m = "LSH" -> "get_lowshelf"
      [] m = "HSH" -> "get_highshelf"

OutputFns == {output_function(m) : m \in FilterMode}

\* variant: every mode takes the cutoff-only arm
update_op_always_cutoff(m) == "set_cutoff_smoothed"

\* the parameter-update operation `process` calls for a mode

update_op(m) ==
    CASE m = "LSH" -> "set_params_low_shelving_smoothed"
      [] m = "HSH" -> "set_params_high_shelving_smoothed"
      [] OTHER     -> "set_cutoff_smoothed"

UpdateOps == {update_op(m) : m \in FilterMode}

\* the call of that operation
CallUpdate(op, fl, hz, g, n) ==
    CASE op = "set_params_low_shelving_smoothed"  ->
            set_params_low_shelving_smoothed(fl, hz, g, n)
      [] op = "set_params_high_shelving_smoothed" ->
            set_params_high_shelving_smoothed(fl, hz, g, n)
      [] op = "set_cutoff_smoothed"               ->
            set_cutoff_smoothed(fl, hz, n)

\* sample rates the host initializes the plugin with
SampleRates == {48000, 84000}

\* a non-zero input frame: a sample per channel, in fixed point
Pulse == <<64, -32>>

\* test signals of n frames: an impulse followed by silence, and a step
Impulse(n) == [i \in 1..n |-> IF i = 1 THEN Pulse ELSE <<0, 0>>]
Step(n) == [i \in 1..n |-> Pulse]

\* the audio blocks the host hands to process: at least one frame
Buffers == {Impulse(n) : n \in 1..MaxFrames} \cup {Step(n) : n \in 1..MaxFrames}

VARIABLES
    params,        \* Arc<OnePoleParams>: the values the host side writes
    f,             \* OnePoleFilter::filter
    pc,            \* where the audio thread is inside process; "idle" between calls
    buffer,        \* the block passed to process
    num_samples,   \* locals of process
    cutoff,
    filter_mode,
    gain,
    get_output,
    idx,           \* frames the iterator of buffer.iter_samples() has yielded
    sample,
    blockLog,      \* history: the operations of the current (or last) block, in order
    snaps,         \* history: the parameter values the host held during the three loads
    fEntry,        \* history: the filter at the entry of the block
    preReset,      \* history: the filter before the latest reset; <<>> once a block starts
    frames,        \* history: frames handed to process so far
    automations,   \* history: host parameter updates
    ramp           \* history of the smoother specification

vars == <<params, f, pc, buffer, num_samples, cutoff, filter_mode, gain, get_output,
          idx, sample, blockLog, snaps, fEntry, preReset, frames, automations, ramp>>

locals == <<num_samples, cutoff, filter_mode, gain, get_output, idx, sample>>

NoRamp == [s \in {"coeff", "gain"} |-> [pre |-> RInt(0), n |-> 0, k |-> 0, sets |-> 0]]

Init ==
    /\ params = DefaultParams
    /\ f = DefaultOnePole
    /\ pc = "idle"
    /\ buffer = <<>>
    /\ num_samples = 0
    /\ cutoff = 0
    /\ filter_mode = "AP"
    /\ gain = RInt(0)
    /\ get_output = "none"
    /\ idx = 0
    /\ sample = Zero
    /\ blockLog = <<>>
    /\ snaps = {}
    /\ fEntry = DefaultOnePole
    /\ preReset = <<>>
    /\ frames = 0
    /\ automations = 0
    /\ ramp = NoRamp

\* The host side writes new parameter values, at any time.  Inside process only
\* the three loads read them, so a write that lands while the audio thread is at
\* another statement is the same write at the next loop head, and is taken there.
Automate ==
    /\ automations < MaxAutomations
    /\ pc \in {"idle", "read_cutoff", "read_mode", "read_gain", "loop"}
    /\ \E v \in ParamValues :
          /\ v # params
          /\ params' = v
          /\ snaps' = IF pc \in {"read_cutoff", "read_mode", "read_gain"}
                      THEN snaps \cup {v} ELSE snaps
    /\ automations' = automations + 1
    /\ UNCHANGED <<f, pc, buffer, locals, blockLog, fEntry, preReset, frames, ramp>>

\* Plugin::initialize
Initialize ==
    /\ pc = "idle"
    /\ f.sample_rate = 0
    /\ \E sr \in SampleRates : f' = set_sample_rate(f, sr)
    /\ UNCHANGED <<params, pc, buffer, locals, blockLog, snaps, fEntry, preReset,
                   frames, automations, ramp>>

\* variant: a reset that leaves the filter alone
reset_nothing(fl) == fl

\* Plugin::reset: self.filter.reset()

reset(fl) == filter_reset(fl)

Reset ==
    /\ pc = "idle"
    /\ f.sample_rate # 0
    /\ preReset' = f
    /\ f' = reset(f)
    /\ UNCHANGED <<params, pc, buffer, locals, blockLog, snaps, fEntry, frames,
                   automations, ramp>>

\* variant: a step count one longer than the block
samples_plus_one(b) == Len(b) + 1

\* Plugin::process, entry: let num_samples = buffer.samples()

samples(b) == Len(b)

StartBlock ==
    /\ pc = "idle"
    /\ f.sample_rate # 0
    /\ \E b \in Buffers :
          /\ frames + Len(b) <= MaxFrames
          /\ buffer' = b
          /\ num_samples' = samples(b)
          /\ frames' = frames + Len(b)
    /\ snaps' = {params}
    /\ fEntry' = f
    /\ preReset' = <<>>
    /\ pc' = "read_cutoff"
    /\ UNCHANGED <<params, f, cutoff, filter_mode, gain, get_output, idx, sample,
                   blockLog, automations, ramp>>

\* let cutoff = MIN_FREQ * (MAX_FREQ / MIN_FREQ).powf(cutoff.unmodulated_plain_value())
ReadCutoff ==
    /\ pc = "read_cutoff"
    /\ cutoff' = CutoffHz(params.cutoff)
    /\ blockLog' = Append(blockLog, "read_cutoff")
    /\ pc' = "read_mode"
    /\ UNCHANGED <<params, f, buffer, num_samples, filter_mode, gain, get_output, idx,
                   sample, snaps, fEntry, preReset, frames, automations, ramp>>

\* let filter_mode = self.params.mode.unmodulated_plain_value()
ReadMode ==
    /\ pc = "read_mode"
    /\ filter_mode' = params.mode
    /\ blockLog' = Append(blockLog, "read_mode")
    /\ pc' = "read_gain"
    /\ UNCHANGED <<params, f, buffer, num_samples, cutoff, gain, get_output, idx,
                   sample, snaps, fEntry, preReset, frames, automations, ramp>>

\* let gain = 10f32.powf(self.params.gain.unmodulated_plain_value() * (1. / 20.))
ReadGain ==
    /\ pc = "read_gain"
    /\ gain' = GainExp(params.gain)
    /\ blockLog' = Append(blockLog, "read_gain")
    /\ pc' = "set_params"
    /\ UNCHANGED <<params, f, buffer, num_samples, cutoff, filter_mode, get_output, idx,
                   sample, snaps, fEntry, preReset, frames, automations, ramp>>

\* variant: the parameter update is left out
SetParams_skipped ==
    /\ pc = "set_params"
    /\ pc' = "select_output"
    /\ snaps' = {}
    /\ UNCHANGED <<params, f, buffer, locals, blockLog, fEntry, preReset, frames,
                   automations, ramp>>

\* match filter_mode { LSH => .., HSH => .., _ => f.set_cutoff_smoothed(..) }
SetParams ==
    /\ pc = "set_params"
    /\ f' = CallUpdate(update_op(filter_mode), f, cutoff, gain, num_samples)
    /\ blockLog' = Append(blockLog, update_op(filter_mode))
    /\ pc' = "select_output"
    /\ snaps' = {}
    /\ UNCHANGED <<params, buffer, locals, fEntry, preReset, frames, automations, ramp>>

\* let get_output = filter_mode.output_function::<2>()
SelectOutput ==
    /\ pc = "select_output"
    /\ get_output' = output_function(filter_mode)
    /\ pc' = "loop"
    /\ UNCHANGED <<params, f, buffer, num_samples, cutoff, filter_mode, gain, idx,
                   sample, blockLog, snaps, fEntry, preReset, frames, automations, ramp>>

\* for mut frame in buffer.iter_samples(): the next frame, read into sample
NextFrame ==
    /\ pc = "loop"
    /\ idx < Len(buffer)
    /\ sample' = buffer[idx + 1]
    /\ pc' = "update_smoothers"
    /\ UNCHANGED <<params, f, buffer, num_samples, cutoff, filter_mode, gain, get_output,
                   idx, blockLog, snaps, fEntry, preReset, frames, automations, ramp>>

\* f.update_smoothers()
UpdateSmoothers ==
    /\ pc = "update_smoothers"
    /\ f' = update_smoothers(f)
    /\ blockLog' = Append(blockLog, "update_smoothers")
    /\ pc' = "process"
    /\ UNCHANGED <<params, buffer, locals, snaps, fEntry, preReset, frames,
                   automations, ramp>>

\* f.process(sample)
Process ==
    /\ pc = "process"
    /\ f' = filter_process(f, sample)
    /\ blockLog' = Append(blockLog, "process")
    /\ pc' = "get_output"
    /\ UNCHANGED <<params, buffer, locals, snaps, fEntry, preReset, frames,
                   automations, ramp>>

\* variant: the derivation is selected from the mode parameter at every frame
GetOutput_per_frame_mode ==
    /\ pc = "get_output"
    /\ sample' = Call(output_function(params.mode), f)
    /\ blockLog' = Append(blockLog, output_function(params.mode))
    /\ pc' = "write"
    /\ UNCHANGED <<params, f, buffer, num_samples, cutoff, filter_mode, gain, get_output,
                   idx, snaps, fEntry, preReset, frames, automations, ramp>>

\* sample = get_output(f)
GetOutput ==
    /\ pc = "get_output"
    /\ sample' = Call(get_output, f)
    /\ blockLog' = Append(blockLog, get_output)
    /\ pc' = "write"
    /\ UNCHANGED <<params, f, buffer, num_samples, cutoff, filter_mode, gain, get_output,
                   idx, snaps, fEntry, preReset, frames, automations, ramp>>

\* variant: both channels receive the first lane
WriteFrame_first_lane ==
    /\ pc = "write"
    /\ buffer' = [buffer EXCEPT ![idx + 1] = <<sample[1], sample[1]>>]
    /\ idx' = idx + 1
    /\ blockLog' = Append(blockLog, "write")
    /\ pc' = "loop"
    /\ UNCHANGED <<params, f, num_samples, cutoff, filter_mode, gain, get_output,
                   sample, snaps, fEntry, preReset, frames, automations, ramp>>

\* *frame.get_unchecked_mut(0) = sample[0]; *frame.get_unchecked_mut(1) = sample[1]
WriteFrame ==
    /\ pc = "write"
    /\ buffer' = [buffer EXCEPT ![idx + 1] = <<sample[1], sample[2]>>]
    /\ idx' = idx + 1
    /\ blockLog' = Append(blockLog, "write")
    /\ pc' = "loop"
    /\ UNCHANGED <<params, f, num_samples, cutoff, filter_mode, gain, get_output,
                   sample, snaps, fEntry, preReset, frames, automations, ramp>>

\* the iterator is exhausted: ProcessStatus::Normal.  The locals go out of scope
\* and the buffer goes back to the host.
Return ==
    /\ pc = "loop"
    /\ idx >= Len(buffer)
    /\ pc' = "idle"
    /\ buffer' = <<>>
    /\ num_samples' = 0
    /\ cutoff' = 0
    /\ filter_mode' = "AP"
    /\ gain' = RInt(0)
    /\ get_output' = "none"
    /\ idx' = 0
    /\ sample' = Zero
    /\ blockLog' = <<>>
    /\ fEntry' = f
    /\ UNCHANGED <<params, f, snaps, preReset, frames, automations, ramp>>

Next ==
    \/ Automate
    \/ Initialize
    \/ Reset
    \/ StartBlock
    \/ ReadCutoff
    \/ ReadMode
    \/ ReadGain
    \/ SetParams
    \/ SelectOutput
    \/ NextFrame
    \/ UpdateSmoothers
    \/ Process
    \/ GetOutput
    \/ WriteFrame
    \/ Return

Spec == Init /\ [][Next]_vars

----------------------------------------------------------------------------
(***************************************************************************)
(* The smoothers on their own: set_target and advance in any order, a new  *)
(* target also in the middle of a ramp.  The two smoothers do not interact *)
(* and a behaviour exercises one of them.                                  *)
(***************************************************************************)
Smoothers == {"coeff", "gain"}

\* the coefficient targets of the cutoff range's ends and middle
SmCoeffTargets(fl) == {pre_gain(fl, CutoffHz(c)) : c \in 0..2}

\* the gain targets of the gain range's ends and middle
SmGainTargets == {GainExp(db) : db \in {-18, 0, 18}}

SmTargets(w, fl) == IF w = "coeff" THEN SmCoeffTargets(fl) ELSE SmGainTargets

InitSm ==
    /\ params = DefaultParams
    /\ \E sr \in SampleRates : f = set_sample_rate(DefaultOnePole, sr)
    /\ pc = "idle"
    /\ buffer = <<>>
    /\ num_samples = 0
    /\ cutoff = 0
    /\ filter_mode = "AP"
    /\ gain = RInt(0)
    /\ get_output = "none"
    /\ idx = 0
    /\ sample = Zero
    /\ blockLog = <<>>
    /\ snaps = {}
    /\ fEntry = DefaultOnePole
    /\ preReset = <<>>
    /\ frames = 0
    /\ automations = 0
    /\ ramp = NoRamp

SmSetTarget ==
    /\ \E w \in Smoothers, n \in 1..MaxSteps :
          /\ ramp[w].sets < MaxSets
          /\ \A o \in Smoothers \ {w} : ramp[o].sets = 0
          /\ \E v \in SmTargets(w, f) :
                /\ f' = [f EXCEPT ![w] = IF w = "coeff" THEN lin_set_target(@, v, n)
                                         ELSE log_set_target(@, v, n)]
                /\ ramp' = [ramp EXCEPT ![w] = [pre |-> f[w].current, n |-> n, k |-> 0,
                                                sets |-> @.sets + 1]]
    /\ UNCHANGED <<params, pc, buffer, locals, blockLog, snaps, fEntry, preReset,
                   frames, automations>>

SmTick ==
    /\ \E w \in Smoothers :
          /\ ramp[w].sets > 0
          /\ ramp[w].k < ramp[w].n + MaxExtraTicks
          /\ f' = [f EXCEPT ![w] = IF w = "coeff" THEN lin_tick(@) ELSE log_tick(@)]
          /\ ramp' = [ramp EXCEPT ![w].k = @ + 1]
    /\ UNCHANGED <<params, pc, buffer, locals, blockLog, snaps, fEntry, preReset,
                   frames, automations>>

NextSm ==
    \/ SmSetTarget
    \/ SmTick

SpecSmoother == InitSm /\ [][NextSm]_vars

----------------------------------------------------------------------------
(***************************************************************************)
(* Properties.                                                             *)
(***************************************************************************)
Count(q, S) == Cardinality({i \in DOMAIN q : q[i] \in S})

ReadOps == {"read_cutoff", "read_mode", "read_gain"}

FrameOps == {"update_smoothers", "process", "write"} \cup OutputFns

\* the audio thread is past the parameter update of the block in progress
PastUpdate == pc \in {"select_output", "loop", "update_smoothers", "process",
                      "get_output", "write"}

\* the frame loop is over and the block callback returns
Returning == pc = "loop" /\ idx >= Len(buffer)

\* the operations of the frame loop, in the order they happened
FrameLog == IF Len(blockLog) > 4 THEN SubSeq(blockLog, 5, Len(blockLog)) ELSE <<>>

\* C1: in every block callback the parameter-update operation is called exactly
\* once, and before any frame operation (update_smoothers, process, output
\* derivation, write) of that block.
C1_UpdateOnceBeforeFrames ==
    /\ Count(blockLog, UpdateOps) <= 1
    /\ (PastUpdate \/ Returning) => Count(blockLog, UpdateOps) = 1
    /\ \A i \in DOMAIN blockLog :
          blockLog[i] \in FrameOps => \E j \in 1..(i - 1) : blockLog[j] \in UpdateOps

C1_Witness ==
    /\ Returning
    /\ Len(buffer) >= 2
    /\ Count(blockLog, UpdateOps) = 1
    /\ Count(blockLog, {"process"}) = Len(buffer)

\* C2: for every frame of a block, update_smoothers, process and the output
\* derivation each happen exactly once and in that order, then the derived output
\* is written to both channels of that frame, before the next frame starts.
C2_FrameOrder ==
    /\ \A i \in DOMAIN FrameLog :
          CASE i % 4 = 1 -> FrameLog[i] = "update_smoothers"
            [] i % 4 = 2 -> FrameLog[i] = "process"
            [] i % 4 = 3 -> FrameLog[i] \in OutputFns
            [] OTHER     -> FrameLog[i] = "write"
    /\ pc = "loop" => Len(FrameLog) = 4 * idx
    /\ (pc = "loop" /\ idx > 0) => buffer[idx] = Call(get_output, f)
    /\ Returning => (idx = Len(buffer) /\ Len(FrameLog) = 4 * Len(buffer))

C2_Witness ==
    /\ pc = "loop"
    /\ idx >= 2
    /\ buffer[idx][1] # buffer[idx][2]
    /\ buffer[idx] = Call(get_output, f)

\* C3: the cutoff, mode and gain a block uses are one consistent snapshot of the
\* host's parameters (never a mix of values from before and after a host update),
\* and no parameter is read again once the frame loop has started.
C3_ConsistentSnapshot ==
    /\ pc = "set_params" =>
          \E s \in snaps : /\ cutoff = CutoffHz(s.cutoff)
                           /\ filter_mode = s.mode
                           /\ gain = GainExp(s.gain)
    /\ \A i \in DOMAIN FrameLog : FrameLog[i] \notin ReadOps

\* C4: reset zeroes the integrator state of every channel and leaves both
\* smoothers (targets, remaining steps) as they were; it is callable between
\* blocks, and the next block can start afterwards.
C4_ResetEffect ==
    preReset # <<>> =>
        /\ f.s = Zero
        /\ f.coeff = preReset.coeff
        /\ f.gain = preReset.gain
        /\ pc = "idle"
        /\ frames < MaxFrames => ENABLED StartBlock

C4_Witness ==
    /\ preReset # <<>>
    /\ preReset.s[1] # 0
    /\ preReset.s[2] # 0
    /\ preReset.coeff.target # RInt(0)
    /\ preReset.gain.target # RInt(0)
    /\ f.s = Zero

\* C5: after set_target(v, n), once n or more advances have happened with no new
\* set_target, the current value equals v.
C5_Convergence ==
    \A w \in Smoothers :
        (ramp[w].sets > 0 /\ ramp[w].k >= ramp[w].n) => f[w].current = f[w].target

C5_Witness ==
    \E w \in Smoothers :
        /\ ramp[w].sets = MaxSets
        /\ ramp[w].n > 1
        /\ ramp[w].k > ramp[w].n
        /\ ramp[w].pre # f[w].target
        /\ f[w].current = f[w].target

StrictlyBetween(c, a, b) == (RLt(a, c) /\ RLt(c, b)) \/ (RLt(b, c) /\ RLt(c, a))

Between(c, a, b) == (~RLt(c, a) /\ ~RLt(b, c)) \/ (~RLt(c, b) /\ ~RLt(a, c))

\* C6 as stated: after at least one and fewer than n advances the current value
\* lies strictly between the value before set_target(v, n) and v.
C6_StrictlyBetween ==
    \A w \in Smoothers :
        (ramp[w].sets > 0 /\ ramp[w].k >= 1 /\ ramp[w].k < ramp[w].n) =>
            StrictlyBetween(f[w].current, ramp[w].pre, f[w].target)

\* C6, amended: when v differs from the value before set_target(v, n), the current
\* value lies strictly between the two after k advances, 1 <= k < n; when v equals
\* it, the current value stays at v; it never leaves the closed interval between
\* the two.
C6_BetweenUnlessEqual ==
    \A w \in Smoothers :
        ramp[w].sets > 0 =>
            /\ (ramp[w].k >= 1 /\ ramp[w].k < ramp[w].n /\ ramp[w].pre # f[w].target) =>
                   StrictlyBetween(f[w].current, ramp[w].pre, f[w].target)
            /\ ramp[w].pre = f[w].target => f[w].current = f[w].target
            /\ Between(f[w].current, ramp[w].pre, f[w].target)

C6_Witness ==
    /\ ramp["gain"].sets = MaxSets
    /\ ramp["gain"].k = MaxSteps - 1
    /\ ramp["gain"].n = MaxSteps
    /\ StrictlyBetween(f.gain.current, ramp["gain"].pre, f.gain.target)

\* C7: when a block callback has returned, the coefficient smoother is at its
\* target with no steps left; the block advanced the smoothers as many times as
\* the step count it passed to the parameter update, and never before that update.
C7_ConvergedAtBlockEnd ==
    /\ (pc = "idle" \/ Returning) => (f.coeff.current = f.coeff.target /\ f.coeff.steps = 0)
    /\ Returning => Count(blockLog, {"update_smoothers"}) = num_samples
    /\ \A i \in DOMAIN blockLog :
          blockLog[i] = "update_smoothers" => \E j \in 1..(i - 1) : blockLog[j] \in UpdateOps

C7_Witness ==
    /\ Returning
    /\ num_samples >= 2
    /\ fEntry.coeff.current # RInt(0)
    /\ fEntry.coeff.current # f.coeff.target
    /\ f.coeff.current = f.coeff.target

\* the outputs of the three complementary modes, read from the same filter state
ModeOut(m) == Call(output_function(m), f)

\* C8: read from the same filter state, Highpass + Lowpass equals the input and
\* Allpass equals 2 * Lowpass - input, on every channel and for every sample.
C8_Complementarity ==
    \A i \in Lanes :
        /\ ModeOut("HP")[i] + ModeOut("LP")[i] = f.x[i]
        /\ ModeOut("AP")[i] = 2 * ModeOut("LP")[i] - f.x[i]

C8_Witness ==
    /\ pc = "get_output"
    /\ idx >= 1
    /\ f.coeff.current = fEntry.coeff.current
    /\ \A i \in Lanes : /\ f.x[i] # 0
                        /\ ModeOut("LP")[i] # 0
                        /\ ModeOut("LP")[i] # f.x[i]
                        /\ ModeOut("AP")[i] # ModeOut("LP")[i]

\* C9: the mode is read once per block and every frame of the block is derived
\* by the derivation function of that mode, whatever the host writes meanwhile.
C9_ModeBlockStable ==
    /\ Count(blockLog, {"read_mode"}) <= 1
    /\ pc = "set_params" => \E s \in snaps : s.mode = filter_mode
    /\ (pc \in {"loop", "update_smoothers", "process", "get_output", "write"}) =>
          get_output = output_function(filter_mode)
    /\ \A i \in DOMAIN FrameLog :
          FrameLog[i] \in OutputFns => FrameLog[i] = output_function(filter_mode)

C9_Witness ==
    /\ pc = "write"
    /\ idx >= 1
    /\ params.mode # filter_mode
    /\ output_function(params.mode) # blockLog[Len(blockLog)]
    /\ blockLog[Len(blockLog)] = output_function(filter_mode)

Shelving == {"LSH", "HSH"}

\* C10: the parameter update of a block sets the gain smoother's target exactly
\* when the block's mode is a shelving mode (LSH by the low-shelving update, HSH
\* by the high-shelving update); HP, LP and AP call set_cutoff_smoothed, which
\* sets the coefficient target only and leaves the gain smoother as it was.
C10_GainTargetIffShelving ==
    pc = "select_output" =>
        /\ f.coeff.target = pre_gain(f, cutoff)
        /\ f.coeff.steps = num_samples
        /\ filter_mode \in Shelving <=> f.gain.steps = num_samples
        /\ filter_mode \in Shelving => f.gain.target = gain
        /\ filter_mode \notin Shelving => f.gain = fEntry.gain
        /\ blockLog[Len(blockLog)] =
              (CASE filter_mode = "LSH" -> "set_params_low_shelving_smoothed"
                 [] filter_mode = "HSH" -> "set_params_high_shelving_smoothed"
                 [] OTHER               -> "set_cutoff_smoothed")

C10_Witness ==
    /\ pc = "select_output"
    /\ filter_mode = "HSH"
    /\ f.gain.target # fEntry.gain.target
    /\ f.gain.target = gain
    /\ f.gain.steps = num_samples
=============================================================================
